---- MODULE Spec2Model ----
(***************************************************************************)
(* Cache-aside protocol of the Movie API (routes/movies.js and             *)
(* routes/genres.js): every handler is a sequence of awaited calls to the  *)
(* Entity Store (mongoose) and the Cache Store (redis).  One action of     *)
(* the model is one awaited call taking effect at its service; the         *)
(* response of a handler is a separate step, so other requests may         *)
(* interleave between any two calls and between the last call and the      *)
(* response.                                                               *)
(***************************************************************************)
EXTENDS Integers, Sequences, FiniteSets, TLC

VARIABLES
  movieDB,    \* Entity Store: the Movie documents
  genreDB,    \* Entity Store: the Genre documents
  nextMovie,  \* number of Movie ids the store has assigned
  nextGenre,  \* number of Genre ids the store has assigned
  cache,      \* Cache Store: key -> [val, ttl]
  proc,       \* the requests in flight, one record per slot
  last,       \* the response sent most recently
  started,    \* number of requests that have arrived
  fails,      \* number of awaited calls that have thrown
  calm,       \* seconds since the system was idle with no mutating request
              \* issued since; -1 from a mutating request until it is idle again
  limits      \* how many slots, requests and failures a run may use, and
              \* whether it keeps the time in calm

vars ==
  <<movieDB, genreDB, nextMovie, nextGenre, cache, proc, last, started, fails,
    calm, limits>>

store == <<movieDB, genreDB, nextMovie, nextGenre>>

(* ---------------------------- bounds ----------------------------------- *)
\* Movie ids and Genre ids the store can assign
MaxMovies == 2
MaxGenres == 1
\* length of a genre's list of movie ids
MaxRefs == 2
\* requests in flight at a time
MaxProcs == 2
\* requests and failed calls in a run
MaxRequests == 3
MaxFailures == 1
\* seconds that pass in one step of time
TickStep == 1800

(* ---------------------- program constants ------------------------------ *)
TTL == 3600

MovieIds == 1..MaxMovies
GenreIds == 1..MaxGenres
Names == {"a", "b"}
GenreNames == {"g"}
\* a required field that the request body does not have
NoName == ""
Procs == 1..MaxProcs

(* ------------------------- key naming ---------------------------------- *)
KeyMoviesAll == "movies:all"
KeyMovie(id) == "movie:" \o ToString(id)
KeyGenresAll == "genres:all"
KeyGenresMovies == "genres:all-with-movies"
KeyGenre(id) == "genre:" \o ToString(id)
KeyGenreMovies(id) == "genre:" \o ToString(id) \o ":movies"

Keys ==
  {KeyMoviesAll, KeyGenresAll, KeyGenresMovies}
    \cup {KeyMovie(i) : i \in MovieIds}
    \cup {KeyGenre(g) : g \in GenreIds}
    \cup {KeyGenreMovies(g) : g \in GenreIds}

(* ------------------------- JSON values --------------------------------- *)
\* JavaScript null / undefined.
Null == <<>>

\* The elements of a finite set of integers in increasing order.
RECURSIVE SortInts(_)
SortInts(S) ==
  IF S = {} THEN <<>>
  ELSE LET m == CHOOSE x \in S : \A y \in S : x <= y
       IN <<m>> \o SortInts(S \ {m})

\* map f over a sequence
MapSeq(f(_), s) == [i \in 1..Len(s) |-> f(s[i])]

\* document.toJSON() of a Movie: the genres array of ids.
MovieJSON(d) == [id |-> d.id, name |-> d.name, genres |-> SortInts(d.genres)]

\* document.toJSON() of a Genre: the movies array of ids.
GenreJSON(g) == [id |-> g.id, name |-> g.name, movies |-> g.movies]

\* JSON.stringify of a JSON value and JSON.parse of a JSON text.
Stringify(v) == <<"json", v>>
Parse(s) == s[2]

\* `if (cachedData)`: null is falsy, a JSON text is not.
Truthy(s) == s # Null

(* ------------------------- Entity Store -------------------------------- *)
HasMovie(db, id) == \E d \in db : d.id = id
MovieOf(db, id) == CHOOSE d \in db : d.id = id
HasGenre(db, id) == \E g \in db : g.id = id
GenreOf(db, id) == CHOOSE g \in db : g.id = id

\* Movie.find(): every movie, in insertion (= id) order.
FindMovies(db) ==
  LET ids == SortInts({d.id : d \in db})
      doc(i) == MovieJSON(MovieOf(db, i))
  IN MapSeq(doc, ids)

\* Movie.findById(id).populate('genres'): the genre ids are replaced by the
\* genre documents that exist; ids without a document are dropped.
PopulateGenres(d, gdb) ==
  LET ids == SortInts({g \in d.genres : HasGenre(gdb, g)})
      doc(g) == GenreJSON(GenreOf(gdb, g))
  IN [id |-> d.id, name |-> d.name, genres |-> MapSeq(doc, ids)]

\* Genre.find()
FindGenres(gdb) ==
  LET ids == SortInts({g.id : g \in gdb})
      doc(i) == GenreJSON(GenreOf(gdb, i))
  IN MapSeq(doc, ids)

\* genre.populate('movies'): each movie id of the list is replaced by the
\* movie document; ids without a document are dropped.
PopulateMovies(g, mdb) ==
  LET live == SelectSeq(g.movies, LAMBDA m : HasMovie(mdb, m))
      doc(m) == MovieJSON(MovieOf(mdb, m))
  IN [id |-> g.id, name |-> g.name, movies |-> MapSeq(doc, live)]

\* Genre.find().populate('movies')
FindGenresWithMovies(gdb, mdb) ==
  LET ids == SortInts({g.id : g \in gdb})
      doc(i) == PopulateMovies(GenreOf(gdb, i), mdb)
  IN MapSeq(doc, ids)

\* PushMovie with $addToSet in the place of $push: an id the list holds is
\* not appended again.
AddToSetMovie(gdb, genres, id) ==
  {IF g.id \in genres /\ \A i \in DOMAIN g.movies : g.movies[i] # id
   THEN [g EXCEPT !.movies = Append(@, id)] ELSE g : g \in gdb}

\* Genre.updateMany({_id: {$in: genres}}, {$push: {movies: id}})
PushMovie(gdb, genres, id) ==
  {IF g.id \in genres THEN [g EXCEPT !.movies = Append(@, id)] ELSE g : g \in gdb}

(* -------------------------- Cache Store -------------------------------- *)
\* An entry holds its value, the seconds it has left and the seconds since
\* it was written.
Absent == [val |-> Null, ttl |-> 0, age |-> 0]

\* redisClient.get(key)
RedisGet(c, k) == IF c[k].ttl > 0 THEN c[k].val ELSE Null

\* redisClient.setex(key, seconds, value)
RedisSetex(c, k, seconds, v) ==
  [c EXCEPT ![k] = [val |-> v, ttl |-> seconds, age |-> 0]]

\* redisClient.del(key)
RedisDel(c, k) == [c EXCEPT ![k] = Absent]

\* the passing of TickStep seconds at the Cache Store
Expire(c) ==
  [k \in Keys |->
     IF c[k].ttl > TickStep
     THEN [c[k] EXCEPT !.ttl = @ - TickStep, !.age = @ + TickStep]
     ELSE Absent]

(* ----------------------- requests in flight ---------------------------- *)
NoLast == [kind |-> "none", id |-> 0, code |-> 0, body |-> Null, alone |-> FALSE]

Idle ==
  [pc |-> "idle", kind |-> "none", id |-> 0, name |-> "", genres |-> {},
   val |-> Null, code |-> 0, hit |-> FALSE, queries |-> 0, cops |-> 0,
   stored |-> FALSE, alone |-> FALSE, after |-> NoLast, at |-> 0]

\* the kinds of request that change the Entity Store
MovieWrites == {"postMovie", "putMovie", "deleteMovie"}
GenreWrites == {"postGenre", "deleteGenre"}
Mutating == MovieWrites \cup GenreWrites

InFlight(q) == proc[q].pc # "idle"
OthersIdle(p) == \A q \in Procs \ {p} : ~InFlight(q)

\* A request can arrive at slot p: the slot is free and, the slots being
\* interchangeable, every lower slot is taken.
CanStart(p) ==
  /\ p <= limits.procs
  /\ ~InFlight(p)
  /\ \A q \in Procs : q < p => InFlight(q)
  /\ started < limits.reqs

\* The record of a request that arrives at slot p.  `alone`: no other request
\* has been in flight since it arrived; `after`: the response that was sent
\* last before it arrived; `at`: the value of calm when it arrived.
Arrive(p, kind, id, name, genres) ==
  [Idle EXCEPT !.kind = kind, !.id = id, !.name = name, !.genres = genres,
               !.alone = OthersIdle(p),
               !.after = IF OthersIdle(p) THEN last ELSE NoLast,
               !.at = calm]

\* Request p starts with record r: the requests in flight are no longer alone.
Start(p, r) ==
  /\ proc' = [q \in Procs |->
                IF q = p THEN r
                ELSE IF InFlight(q)
                     THEN [proc[q] EXCEPT !.alone = FALSE, !.after = NoLast]
                     ELSE proc[q]]
  /\ started' = started + 1
  /\ calm' = IF limits.clock /\ r.kind \in Mutating THEN -1 ELSE calm
  /\ UNCHANGED <<last, limits>>

\* Request p goes on with record r.
Step(p, r) ==
  /\ proc' = [proc EXCEPT ![p] = r]
  /\ UNCHANGED <<last, started, calm, limits>>

\* res.status(code).json(body): the response is ready to be sent
Reply(r, code, body) == [r EXCEPT !.pc = "respond", !.code = code, !.val = body]

ErrorBody(msg) == Stringify([error |-> msg])
InternalError == ErrorBody("Internal Server Error")
InvalidData == ErrorBody("Invalid data")

\* an awaited call either succeeds or throws (service unreachable/erroring)
Outcomes == IF fails < limits.fails THEN BOOLEAN ELSE {TRUE}
Outcome(ok) == fails' = IF ok THEN fails ELSE fails + 1

\* references to genre g that are stored or will be pushed by a request in flight
Refs(g) ==
  (IF HasGenre(genreDB, g) THEN Len(GenreOf(genreDB, g).movies) ELSE 0)
    + Cardinality({q \in Procs : proc[q].pc = "fanout" /\ g \in proc[q].genres})

RoomFor(genres) == \A g \in genres : Refs(g) < MaxRefs

(* ----------------- the read-through pattern of the GETs ---------------- *)
\* Lookup with a sliding expiry: a hit renews the entry's 3600 seconds.
LookupSliding(p, kind, id, key) ==
  /\ CanStart(p)
  /\ \E ok \in Outcomes :
       /\ Outcome(ok)
       /\ LET r == Arrive(p, kind, id, "", {})
              cachedData == RedisGet(cache, key)
          IN /\ Start(p, IF ~ok THEN Reply(r, 500, InternalError)
                         ELSE IF Truthy(cachedData)
                              THEN [Reply(r, 200, Stringify(Parse(cachedData)))
                                      EXCEPT !.hit = TRUE]
                              ELSE [r EXCEPT !.pc = "find"])
             /\ cache' = IF ok /\ Truthy(cachedData)
                         THEN [cache EXCEPT ![key].ttl = TTL] ELSE cache
  /\ UNCHANGED store

\* Lookup with an error of the get treated as a miss: the handler goes on to
\* the store.
LookupErrorAsMiss(p, kind, id, key) ==
  /\ CanStart(p)
  /\ \E ok \in Outcomes :
       /\ Outcome(ok)
       /\ LET r == Arrive(p, kind, id, "", {})
              cachedData == IF ok THEN RedisGet(cache, key) ELSE Null
          IN Start(p, IF Truthy(cachedData)
                      THEN [Reply(r, 200, Stringify(Parse(cachedData)))
                              EXCEPT !.hit = TRUE]
                      ELSE [r EXCEPT !.pc = "find"])
  /\ UNCHANGED <<store, cache>>

\* const cachedData = await redisClient.get(cacheKey);
\* if (cachedData) { res.json(JSON.parse(cachedData)) } else { ... }
Lookup(p, kind, id, key) ==
  /\ CanStart(p)
  /\ \E ok \in Outcomes :
       /\ Outcome(ok)
       /\ LET r == Arrive(p, kind, id, "", {})
              cachedData == RedisGet(cache, key)
          IN Start(p, IF ~ok THEN Reply(r, 500, InternalError)
                      ELSE IF Truthy(cachedData)
                           THEN [Reply(r, 200, Stringify(Parse(cachedData)))
                                   EXCEPT !.hit = TRUE]
                           ELSE [r EXCEPT !.pc = "find"])
  /\ UNCHANGED <<store, cache>>

\* const x = await <query>; `found`: the query returned a document (or a
\* list); `value`: what the handler goes on to cache; `queries` counts the
\* queries the handler has made, the one that throws included
Find(p, kind, found, value, notFound) ==
  /\ proc[p].kind = kind /\ proc[p].pc = "find"
  /\ \E ok \in Outcomes :
       /\ Outcome(ok)
       /\ Step(p, IF ~ok THEN [Reply(proc[p], 500, InternalError)
                                EXCEPT !.queries = @ + 1]
                  ELSE IF ~found
                       THEN [Reply(proc[p], 404, ErrorBody(notFound))
                               EXCEPT !.queries = @ + 1]
                       ELSE [proc[p] EXCEPT !.pc = "setex", !.val = value,
                                            !.queries = @ + 1])
  /\ UNCHANGED <<store, cache>>

\* Setex caching the wrong variable: cachedData, which is null on a miss.
SetexCachedData(p, kind, key) ==
  /\ proc[p].kind = kind /\ proc[p].pc = "setex"
  /\ \E ok \in Outcomes :
       /\ Outcome(ok)
       /\ IF ok
          THEN /\ cache' = RedisSetex(cache, key, TTL, Stringify(Null))
               /\ Step(p, [Reply(proc[p], 200, Stringify(proc[p].val))
                             EXCEPT !.cops = @ + 1])
          ELSE /\ cache' = cache
               /\ Step(p, Reply(proc[p], 500, InternalError))
  /\ UNCHANGED store

\* Setex with an expiry of two hours.
SetexTwoHours(p, kind, key) ==
  /\ proc[p].kind = kind /\ proc[p].pc = "setex"
  /\ \E ok \in Outcomes :
       /\ Outcome(ok)
       /\ IF ok
          THEN /\ cache' = RedisSetex(cache, key, 2 * TTL, Stringify(proc[p].val))
               /\ Step(p, [Reply(proc[p], 200, Stringify(proc[p].val))
                             EXCEPT !.cops = @ + 1])
          ELSE /\ cache' = cache
               /\ Step(p, Reply(proc[p], 500, InternalError))
  /\ UNCHANGED store

\* await redisClient.setex(cacheKey, 3600, JSON.stringify(x)); res.json(x)
Setex(p, kind, key) ==
  /\ proc[p].kind = kind /\ proc[p].pc = "setex"
  /\ \E ok \in Outcomes :
       /\ Outcome(ok)
       /\ IF ok
          THEN /\ cache' = RedisSetex(cache, key, TTL, Stringify(proc[p].val))
               /\ Step(p, [Reply(proc[p], 200, Stringify(proc[p].val))
                             EXCEPT !.cops = @ + 1])
          ELSE /\ cache' = cache
               /\ Step(p, Reply(proc[p], 500, InternalError))
  /\ UNCHANGED store

\* await redisClient.del(key); res.status(code).json(body)
Invalidate(p, kind, key, code, body, errCode, errBody) ==
  /\ proc[p].kind = kind /\ proc[p].pc = "del"
  /\ \E ok \in Outcomes :
       /\ Outcome(ok)
       /\ IF ok
          THEN /\ cache' = RedisDel(cache, key)
               /\ Step(p, [Reply(proc[p], code, body) EXCEPT !.cops = @ + 1])
          ELSE /\ cache' = cache
               /\ Step(p, Reply(proc[p], errCode, errBody))
  /\ UNCHANGED store

\* Fanout with the error of the update caught and dropped: the handler goes
\* on to the del.
FanoutSwallow(p, kind, errCode, errBody) ==
  /\ proc[p].kind = kind /\ proc[p].pc = "fanout"
  /\ \E ok \in Outcomes :
       /\ Outcome(ok)
       /\ genreDB' = IF ok THEN PushMovie(genreDB, proc[p].genres, proc[p].id)
                     ELSE genreDB
       /\ Step(p, [proc[p] EXCEPT !.pc = "del"])
  /\ UNCHANGED <<movieDB, nextMovie, nextGenre, cache>>

\* await Genre.updateMany({_id: {$in: genres}}, {$push: {movies: movie._id}})
Fanout(p, kind, errCode, errBody) ==
  /\ proc[p].kind = kind /\ proc[p].pc = "fanout"
  /\ \E ok \in Outcomes :
       /\ Outcome(ok)
       /\ IF ok
          THEN /\ genreDB' = PushMovie(genreDB, proc[p].genres, proc[p].id)
               /\ Step(p, [proc[p] EXCEPT !.pc = "del"])
          ELSE /\ genreDB' = genreDB
               /\ Step(p, Reply(proc[p], errCode, errBody))
  /\ UNCHANGED <<movieDB, nextMovie, nextGenre, cache>>

(* ------------------------- GET /movies --------------------------------- *)
GetMoviesLookup(p) == Lookup(p, "getMovies", 0, KeyMoviesAll)
GetMoviesFind(p) == Find(p, "getMovies", TRUE, FindMovies(movieDB), "")
\* GetMoviesSetex writing only a list that is still the store's.
GetMoviesSetexIfCurrent(p) ==
  /\ proc[p].kind = "getMovies" /\ proc[p].pc = "setex"
  /\ \E ok \in Outcomes :
       /\ Outcome(ok)
       /\ IF ok
          THEN /\ cache' = IF proc[p].val = FindMovies(movieDB)
                           THEN RedisSetex(cache, KeyMoviesAll, TTL, Stringify(proc[p].val))
                           ELSE cache
               /\ Step(p, [Reply(proc[p], 200, Stringify(proc[p].val))
                             EXCEPT !.cops = @ + 1])
          ELSE /\ cache' = cache
               /\ Step(p, Reply(proc[p], 500, InternalError))
  /\ UNCHANGED store

GetMoviesSetex(p) == Setex(p, "getMovies", KeyMoviesAll)

(* ----------------------- GET /movies/:id ------------------------------- *)
GetMovieLookup(p, id) == Lookup(p, "getMovie", id, KeyMovie(id))

GetMovieFind(p) ==
  LET id == proc[p].id
      movie == IF HasMovie(movieDB, id)
               THEN PopulateGenres(MovieOf(movieDB, id), genreDB) ELSE Null
  IN Find(p, "getMovie", movie # Null, movie, "Movie not found")

\* GetMovieSetex writing the list's key.
GetMovieSetexListKey(p) == Setex(p, "getMovie", KeyMoviesAll)

GetMovieSetex(p) == Setex(p, "getMovie", KeyMovie(proc[p].id))

(* ------------------------- POST /movies -------------------------------- *)
\* PostMovieCreate with a schema that requires no field: the document is
\* stored as it comes.
PostMovieCreateUnvalidated(p, name, genres) ==
  /\ CanStart(p)
  /\ nextMovie < MaxMovies
  /\ RoomFor(genres)
  /\ \E ok \in Outcomes :
       /\ Outcome(ok)
       /\ LET r == Arrive(p, "postMovie", 0, name, genres)
          IN IF ok
             THEN /\ movieDB' = movieDB \cup
                        {[id |-> nextMovie + 1, name |-> name, genres |-> genres]}
                  /\ nextMovie' = nextMovie + 1
                  /\ Start(p, [r EXCEPT !.pc = "fanout", !.id = nextMovie + 1,
                                        !.stored = TRUE])
             ELSE /\ UNCHANGED <<movieDB, nextMovie>>
                  /\ Start(p, Reply(r, 400, InvalidData))
  /\ UNCHANGED <<genreDB, nextGenre, cache>>

\* Movie.create validates the required fields before it writes: a document
\* that is not valid never reaches the store, so the store call cannot fail.
PostMovieCreate(p, name, genres) ==
  /\ CanStart(p)
  /\ nextMovie < MaxMovies
  /\ RoomFor(genres)
  /\ \E ok \in Outcomes :
       /\ name = NoName => ok
       /\ Outcome(ok)
       /\ LET r == Arrive(p, "postMovie", 0, name, genres)
          IN IF name # NoName /\ ok
             THEN /\ movieDB' = movieDB \cup
                        {[id |-> nextMovie + 1, name |-> name, genres |-> genres]}
                  /\ nextMovie' = nextMovie + 1
                  /\ Start(p, [r EXCEPT !.pc = "fanout", !.id = nextMovie + 1,
                                        !.stored = TRUE])
             ELSE /\ UNCHANGED <<movieDB, nextMovie>>
                  /\ Start(p, Reply(r, 400, InvalidData))
  /\ UNCHANGED <<genreDB, nextGenre, cache>>

PostMovieFanout(p) == Fanout(p, "postMovie", 400, InvalidData)

\* PostMovieDel invalidating the derived key `genres:all-with-movies`.
PostMovieDelDerived(p) ==
  Invalidate(p, "postMovie", KeyGenresMovies, 201,
             Stringify([message |-> "Movie Created", movie |-> MovieJSON(proc[p])]),
             400, InvalidData)

PostMovieDel(p) ==
  Invalidate(p, "postMovie", KeyMoviesAll, 201,
             Stringify([message |-> "Movie Created", movie |-> MovieJSON(proc[p])]),
             400, InvalidData)

(* ------------------------ PUT /movies/:id ------------------------------ *)
\* Movie.findByIdAndUpdate(id, fields, {new: true})
PutMovieUpdate(p, id, name, genres) ==
  /\ CanStart(p)
  /\ RoomFor(genres)
  /\ \E ok \in Outcomes :
       /\ Outcome(ok)
       /\ LET r == Arrive(p, "putMovie", id, name, genres)
          IN IF ~ok
             THEN /\ movieDB' = movieDB
                  /\ Start(p, Reply(r, 500, InternalError))
             ELSE IF ~HasMovie(movieDB, id)
             THEN /\ movieDB' = movieDB
                  /\ Start(p, Reply(r, 404, ErrorBody("Movie not found")))
             ELSE /\ movieDB' = (movieDB \ {MovieOf(movieDB, id)}) \cup
                        {[id |-> id, name |-> name, genres |-> genres]}
                  /\ Start(p, [r EXCEPT !.pc = "fanout", !.stored = TRUE])
  /\ UNCHANGED <<genreDB, nextMovie, nextGenre, cache>>

PutMovieFanout(p) == Fanout(p, "putMovie", 500, InternalError)

\* PutMovieDel invalidating the entity's key and not the list's.
PutMovieDelEntityKey(p) ==
  Invalidate(p, "putMovie", KeyMovie(proc[p].id), 200, Stringify(MovieJSON(proc[p])),
             500, InternalError)

PutMovieDel(p) ==
  Invalidate(p, "putMovie", KeyMoviesAll, 200, Stringify(MovieJSON(proc[p])),
             500, InternalError)

(* ---------------------- DELETE /movies/:id ----------------------------- *)
\* DeleteMovieDelete without the `if (!movie) return 404` check.
DeleteMovieDeleteUnchecked(p, id) ==
  /\ CanStart(p)
  /\ \E ok \in Outcomes :
       /\ Outcome(ok)
       /\ LET r == Arrive(p, "deleteMovie", id, "", {})
          IN IF ~ok
             THEN /\ movieDB' = movieDB
                  /\ Start(p, Reply(r, 500, InternalError))
             ELSE /\ movieDB' = {d \in movieDB : d.id # id}
                  /\ Start(p, [r EXCEPT !.pc = "del", !.stored = HasMovie(movieDB, id)])
  /\ UNCHANGED <<genreDB, nextMovie, nextGenre, cache>>

\* Movie.findByIdAndDelete(id)
DeleteMovieDelete(p, id) ==
  /\ CanStart(p)
  /\ \E ok \in Outcomes :
       /\ Outcome(ok)
       /\ LET r == Arrive(p, "deleteMovie", id, "", {})
          IN IF ~ok
             THEN /\ movieDB' = movieDB
                  /\ Start(p, Reply(r, 500, InternalError))
             ELSE IF ~HasMovie(movieDB, id)
             THEN /\ movieDB' = movieDB
                  /\ Start(p, Reply(r, 404, ErrorBody("Movie not found")))
             ELSE /\ movieDB' = movieDB \ {MovieOf(movieDB, id)}
                  /\ Start(p, [r EXCEPT !.pc = "del", !.stored = TRUE])
  /\ UNCHANGED <<genreDB, nextMovie, nextGenre, cache>>

DeleteMovieDel(p) ==
  Invalidate(p, "deleteMovie", KeyMoviesAll, 200,
             Stringify([message |-> "Movie deleted"]), 500, InternalError)

(* ------------------------- GET /genres --------------------------------- *)
GetGenresLookup(p) == Lookup(p, "getGenres", 0, KeyGenresAll)
GetGenresFind(p) == Find(p, "getGenres", TRUE, FindGenres(genreDB), "")
GetGenresSetex(p) == Setex(p, "getGenres", KeyGenresAll)

(* ---------------------- GET /genres-movies ----------------------------- *)
GetGenresMoviesLookup(p) == Lookup(p, "getGenresMovies", 0, KeyGenresMovies)

GetGenresMoviesFind(p) ==
  Find(p, "getGenresMovies", TRUE, FindGenresWithMovies(genreDB, movieDB), "")

GetGenresMoviesSetex(p) == Setex(p, "getGenresMovies", KeyGenresMovies)

(* ------------------- GET /genres/:genreId/movies ----------------------- *)
\* GetGenreMoviesLookup reading the key that POST /genres writes.
GetGenreMoviesLookupGenreKey(p, id) == Lookup(p, "getGenreMovies", id, KeyGenre(id))

GetGenreMoviesLookup(p, id) == Lookup(p, "getGenreMovies", id, KeyGenreMovies(id))

GetGenreMoviesFind(p) ==
  LET id == proc[p].id
      found == HasGenre(genreDB, id)
      movies == IF found THEN PopulateMovies(GenreOf(genreDB, id), movieDB).movies
                ELSE Null
  IN Find(p, "getGenreMovies", found, movies, "Genre not found")

GetGenreMoviesSetex(p) == Setex(p, "getGenreMovies", KeyGenreMovies(proc[p].id))

(* ------------------------- POST /genres -------------------------------- *)
\* Genre.create validates the required name before it writes.
PostGenreCreate(p, name) ==
  /\ CanStart(p)
  /\ nextGenre < MaxGenres
  /\ \E ok \in Outcomes :
       /\ name = NoName => ok
       /\ Outcome(ok)
       /\ LET r == Arrive(p, "postGenre", 0, name, {})
              genre == [id |-> nextGenre + 1, name |-> name, movies |-> <<>>]
          IN IF name # NoName /\ ok
             THEN /\ genreDB' = genreDB \cup {genre}
                  /\ nextGenre' = nextGenre + 1
                  /\ Start(p, [r EXCEPT !.pc = "setex", !.id = genre.id,
                                        !.val = GenreJSON(genre), !.stored = TRUE])
             ELSE /\ UNCHANGED <<genreDB, nextGenre>>
                  /\ Start(p, Reply(r, 400, InvalidData))
  /\ UNCHANGED <<movieDB, nextMovie, cache>>

\* await redisClient.setex(`genre:${genre._id}`, 3600, JSON.stringify(genre))
PostGenreSetex(p) ==
  /\ proc[p].kind = "postGenre" /\ proc[p].pc = "setex"
  /\ \E ok \in Outcomes :
       /\ Outcome(ok)
       /\ IF ok
          THEN /\ cache' = RedisSetex(cache, KeyGenre(proc[p].id), TTL,
                                      Stringify(proc[p].val))
               /\ Step(p, [Reply(proc[p], 201,
                                 Stringify([message |-> "Genre Created",
                                            genre |-> proc[p].val]))
                             EXCEPT !.cops = @ + 1])
          ELSE /\ cache' = cache
               /\ Step(p, Reply(proc[p], 400, InvalidData))
  /\ UNCHANGED store

(* -------------------- DELETE /genres/:genreId -------------------------- *)
\* Genre.findByIdAndDelete(genreId)
DeleteGenreDelete(p, id) ==
  /\ CanStart(p)
  /\ \E ok \in Outcomes :
       /\ Outcome(ok)
       /\ LET r == Arrive(p, "deleteGenre", id, "", {})
          IN IF ~ok
             THEN /\ genreDB' = genreDB
                  /\ Start(p, Reply(r, 500, InternalError))
             ELSE IF ~HasGenre(genreDB, id)
             THEN /\ genreDB' = genreDB
                  /\ Start(p, Reply(r, 404, ErrorBody("Genre not found")))
             ELSE /\ genreDB' = genreDB \ {GenreOf(genreDB, id)}
                  /\ Start(p, [r EXCEPT !.pc = "del", !.stored = TRUE])
  /\ UNCHANGED <<movieDB, nextMovie, nextGenre, cache>>

\* DeleteGenreDel invalidating the key of the genre's movies.
DeleteGenreDelMoviesKey(p) ==
  Invalidate(p, "deleteGenre", KeyGenreMovies(proc[p].id), 200,
             Stringify([message |-> "Genre deleted"]), 500, InternalError)

DeleteGenreDel(p) ==
  Invalidate(p, "deleteGenre", KeyGenre(proc[p].id), 200,
             Stringify([message |-> "Genre deleted"]), 500, InternalError)

(* ------------------------- response ------------------------------------ *)
Gets == {"getMovies", "getMovie", "getGenres", "getGenresMovies", "getGenreMovies"}

\* the cacheKey of a GET handler
CacheKey(kind, id) ==
  CASE kind = "getMovies" -> KeyMoviesAll
    [] kind = "getMovie" -> KeyMovie(id)
    [] kind = "getGenres" -> KeyGenresAll
    [] kind = "getGenresMovies" -> KeyGenresMovies
    [] kind = "getGenreMovies" -> KeyGenreMovies(id)

\* The handler sends the response it has prepared and the request ends.  A
\* state with pc = "respond" is the moment the operation returns.
Respond(p) ==
  /\ proc[p].pc = "respond"
  /\ last' = [kind |-> proc[p].kind, id |-> proc[p].id, code |-> proc[p].code,
              body |-> IF proc[p].kind \in Gets THEN proc[p].val ELSE Null,
              alone |-> proc[p].alone]
  /\ proc' = [proc EXCEPT ![p] = Idle]
  /\ calm' = IF calm = -1 /\ OthersIdle(p) THEN 0 ELSE calm
  /\ UNCHANGED <<store, cache, started, fails, limits>>

(* ------------------------- time ---------------------------------------- *)
\* TickStep seconds pass: the Cache Store drops the entries whose time is up.
Tick ==
  /\ \E k \in Keys : cache[k].ttl > 0
  /\ cache' = Expire(cache)
  /\ calm' = IF limits.clock /\ calm >= 0
             THEN (IF calm + TickStep < TTL THEN calm + TickStep ELSE TTL)
             ELSE calm
  /\ UNCHANGED <<store, proc, last, started, fails, limits>>

(* ------------------------- specifications ------------------------------ *)
\* The state after startup, with an empty store and an empty cache.
Begin(l) ==
  /\ movieDB = {}
  /\ genreDB = {}
  /\ nextMovie = 0
  /\ nextGenre = 0
  /\ cache = [k \in Keys |-> Absent]
  /\ proc = [p \in Procs |-> Idle]
  /\ last = NoLast
  /\ started = 0
  /\ fails = 0
  /\ calm = 0
  /\ limits = l

Init ==
  Begin([procs |-> MaxProcs, reqs |-> MaxRequests, fails |-> MaxFailures,
         clock |-> FALSE])

Next ==
  \/ \E p \in Procs : GetMoviesLookup(p)
  \/ \E p \in Procs : GetMoviesFind(p)
  \/ \E p \in Procs : GetMoviesSetex(p)
  \/ \E p \in Procs, id \in MovieIds : GetMovieLookup(p, id)
  \/ \E p \in Procs : GetMovieFind(p)
  \/ \E p \in Procs : GetMovieSetex(p)
  \/ \E p \in Procs, name \in Names \cup {NoName}, genres \in SUBSET GenreIds :
       PostMovieCreate(p, name, genres)
  \/ \E p \in Procs : PostMovieFanout(p)
  \/ \E p \in Procs : PostMovieDel(p)
  \/ \E p \in Procs, id \in MovieIds, name \in Names, genres \in SUBSET GenreIds :
       PutMovieUpdate(p, id, name, genres)
  \/ \E p \in Procs : PutMovieFanout(p)
  \/ \E p \in Procs : PutMovieDel(p)
  \/ \E p \in Procs, id \in MovieIds : DeleteMovieDelete(p, id)
  \/ \E p \in Procs : DeleteMovieDel(p)
  \/ \E p \in Procs : GetGenresLookup(p)
  \/ \E p \in Procs : GetGenresFind(p)
  \/ \E p \in Procs : GetGenresSetex(p)
  \/ \E p \in Procs : GetGenresMoviesLookup(p)
  \/ \E p \in Procs : GetGenresMoviesFind(p)
  \/ \E p \in Procs : GetGenresMoviesSetex(p)
  \/ \E p \in Procs, id \in GenreIds : GetGenreMoviesLookup(p, id)
  \/ \E p \in Procs : GetGenreMoviesFind(p)
  \/ \E p \in Procs : GetGenreMoviesSetex(p)
  \/ \E p \in Procs, name \in GenreNames \cup {NoName} : PostGenreCreate(p, name)
  \/ \E p \in Procs : PostGenreSetex(p)
  \/ \E p \in Procs, id \in GenreIds : DeleteGenreDelete(p, id)
  \/ \E p \in Procs : DeleteGenreDel(p)
  \/ \E p \in Procs : Respond(p)
  \/ Tick

Spec == Init /\ [][Next]_vars

\* Requests arrive one at a time and no call fails; one request more.
InitSeq == Begin([procs |-> 1, reqs |-> MaxRequests + 1, fails |-> 0, clock |-> FALSE])
SpecSeq == InitSeq /\ [][Next]_vars

\* The runs of Spec, with the time since the last mutating request kept.
InitCalm ==
  Begin([procs |-> MaxProcs, reqs |-> MaxRequests, fails |-> MaxFailures,
         clock |-> TRUE])
SpecCalm == InitCalm /\ [][Next]_vars

\* The runs of Spec and the runs of SpecSeq.
InitAny ==
  \E l \in {[procs |-> MaxProcs, reqs |-> MaxRequests, fails |-> MaxFailures,
              clock |-> FALSE],
             [procs |-> 1, reqs |-> MaxRequests + 1, fails |-> 0, clock |-> FALSE]} :
    Begin(l)
SpecAny == InitAny /\ [][Next]_vars

(* ======================================================================= *)
(* Properties                                                              *)
(* ======================================================================= *)
Success == {200, 201}

\* p is at the moment it returns
Returning(p) == proc[p].pc = "respond"

\* p returns the success response of a movie write
MovieWriteReturns(p) ==
  Returning(p) /\ proc[p].kind \in MovieWrites /\ proc[p].code \in Success

\* p is a GET /movies that arrived, with no request in flight, after the
\* success response of a movie write, and returns 200
GetMoviesAfterWrite(p) ==
  /\ Returning(p) /\ proc[p].kind = "getMovies" /\ proc[p].code = 200
  /\ proc[p].after.kind \in MovieWrites /\ proc[p].after.code \in Success

\* p queried the store and returns the store's current movie list
ReturnsCurrentMovies(p) ==
  /\ ~proc[p].hit
  /\ proc[p].queries = 1
  /\ proc[p].val = Stringify(FindMovies(movieDB))

\* C1 as claimed: whenever POST /movies, PUT /movies/:id or DELETE /movies/:id
\* returns its success response, `movies:all` is absent, whatever other
\* requests are in flight, and the next GET /movies started after that return
\* queries the store and returns the store's current movie list.
C1_AbsentAtEveryReturn ==
  \A p \in Procs :
    /\ MovieWriteReturns(p) => RedisGet(cache, KeyMoviesAll) = Null
    /\ GetMoviesAfterWrite(p) /\ proc[p].alone => ReturnsCurrentMovies(p)

\* C1 amended: the same, for a movie write during which no other request was
\* in flight (and a next GET /movies during which none was).
C1_AbsentAtReturnWhenAlone ==
  \A p \in Procs :
    /\ MovieWriteReturns(p) /\ proc[p].alone => RedisGet(cache, KeyMoviesAll) = Null
    /\ GetMoviesAfterWrite(p) /\ proc[p].after.alone /\ proc[p].alone
         => ReturnsCurrentMovies(p)

\* C1 witness: a GET /movies right after a PUT that ran alone returns a
\* non-empty list read from the store.
C1_Witness ==
  \E p \in Procs :
    /\ GetMoviesAfterWrite(p) /\ proc[p].after.alone /\ proc[p].alone
    /\ proc[p].after.kind = "putMovie"
    /\ proc[p].val # Stringify(<<>>)

\* p is a GET /movies/:id that arrived right after the response `code` of
\* a request of kind `kind` for the same id, with no other request in flight
\* since, and that did not fail
GetMovieAfter(p, kinds, code) ==
  /\ Returning(p) /\ proc[p].kind = "getMovie" /\ proc[p].code # 500
  /\ proc[p].alone
  /\ proc[p].after.kind \in kinds /\ proc[p].after.code = code
  /\ proc[p].after.id = proc[p].id

\* what GET /movies/:id returns when it reads movie id from the store
FreshMovie(id) == Stringify(PopulateGenres(MovieOf(movieDB, id), genreDB))

\* C2: after PUT /movies/:id or DELETE /movies/:id has returned success for
\* id m, a GET /movies/m started afterwards, with no other request in
\* between, returns the updated movie, respectively not-found, never the
\* snapshot held under `movie:m`.
C2_NoStaleReadAfterWrite ==
  \A p \in Procs :
    GetMovieAfter(p, {"putMovie", "deleteMovie"}, 200) =>
      IF HasMovie(movieDB, proc[p].id)
      THEN proc[p].code = 200 /\ proc[p].val = FreshMovie(proc[p].id)
      ELSE proc[p].code = 404

\* C3: a GET /movies/:id for an id that has no Movie record in the store
\* returns 404, whatever happened before, and leaves the Cache Store as it is.
C3_NotFoundOnEveryCall ==
  \A p \in Procs :
    /\ Returning(p) /\ proc[p].kind = "getMovie" /\ proc[p].code # 500
    /\ proc[p].alone
    /\ ~HasMovie(movieDB, proc[p].id)
    => proc[p].code = 404 /\ proc[p].cops = 0

\* p returns 200 from a GET handler
GetReturns(p) == Returning(p) /\ proc[p].kind \in Gets /\ proc[p].code = 200

\* a GET arrives at slot p and finds its key in the cache
HitStep(p) == ~InFlight(p) /\ proc'[p].kind \in Gets /\ proc'[p].hit

\* a GET at slot p has queried the store and writes its key
PopulateStep(p) ==
  proc[p].kind \in Gets /\ proc[p].pc = "setex" /\ proc'[p].code = 200

\* C4, the counts: a GET that returns 200 either found its key (no store
\* query, no cache write) or made exactly one store query and one cache
\* write; a GET right after the same GET, with nothing in between, that finds
\* the key returns the identical payload.
C4_Counts ==
  \A p \in Procs :
    /\ GetReturns(p) /\ proc[p].hit => proc[p].queries = 0 /\ proc[p].cops = 0
    /\ GetReturns(p) /\ ~proc[p].hit => proc[p].queries = 1 /\ proc[p].cops = 1
    /\ /\ GetReturns(p) /\ proc[p].hit /\ proc[p].alone
       /\ proc[p].after.kind = proc[p].kind /\ proc[p].after.id = proc[p].id
       /\ proc[p].after.code = 200 /\ proc[p].after.alone
       => proc[p].val = proc[p].after.body

\* C4, the steps: a hit returns the payload stored under the key and touches
\* neither the store nor the cache; a miss stores what it returns under its
\* key with a 3600-second expiry.
C4_Steps ==
  \A p \in Procs :
    /\ HitStep(p) =>
         /\ proc'[p].val = RedisGet(cache, CacheKey(proc'[p].kind, proc'[p].id))
         /\ cache' = cache
         /\ store' = store
    /\ PopulateStep(p) =>
         /\ cache'[CacheKey(proc[p].kind, proc[p].id)]
              = [val |-> proc'[p].val, ttl |-> 3600, age |-> 0]
         /\ \A k \in Keys \ {CacheKey(proc[p].kind, proc[p].id)} : cache'[k] = cache[k]

\* C4: cache population by the five read endpoints.
C4_CachePopulation == [](C4_Counts) /\ [][C4_Steps]_vars

\* C4 witness: a GET /genres-movies that finds its key right after a GET
\* /genres-movies that populated it, one TickStep later.
C4_Witness ==
  \E p \in Procs :
    /\ GetReturns(p) /\ proc[p].hit /\ proc[p].alone
    /\ proc[p].kind = "getGenresMovies" /\ proc[p].after.kind = "getGenresMovies"
    /\ proc[p].after.code = 200 /\ proc[p].after.alone
    /\ cache[KeyGenresMovies].ttl = TTL - TickStep

\* what the loader of a cache key returns from the Entity Store: the key of a
\* GET handler, or `genre:<id>`, which POST /genres writes
Loader(kind, id, mdb, gdb) ==
  CASE kind = "getMovies" -> FindMovies(mdb)
    [] kind = "getMovie" ->
         IF HasMovie(mdb, id) THEN PopulateGenres(MovieOf(mdb, id), gdb) ELSE Null
    [] kind = "getGenres" -> FindGenres(gdb)
    [] kind = "getGenresMovies" -> FindGenresWithMovies(gdb, mdb)
    [] kind = "getGenreMovies" ->
         IF HasGenre(gdb, id) THEN PopulateMovies(GenreOf(gdb, id), mdb).movies
         ELSE Null
    [] kind = "postGenre" ->
         IF HasGenre(gdb, id) THEN GenreJSON(GenreOf(gdb, id)) ELSE Null

CacheWriters == Gets \cup {"postGenre"}

WrittenKey(kind, id) == IF kind = "postGenre" THEN KeyGenre(id) ELSE CacheKey(kind, id)

\* request p writes its key (setex) in this step
WriteStep(p) ==
  /\ proc[p].kind \in CacheWriters /\ proc[p].pc = "setex"
  /\ proc'[p].cops = proc[p].cops + 1

\* request p reads the store (or creates its record) in this step and goes on
\* to write the cache
ReadStep(p) ==
  /\ proc'[p].kind \in CacheWriters /\ proc'[p].pc = "setex"
  /\ proc[p].pc # "setex"

\* C5 as claimed: at the instant a handler writes a key, the value written is
\* what the key's loader returns from the Entity Store at that instant, under
\* every interleaving.
C5_SnapshotAtWrite ==
  [][\A p \in Procs :
       WriteStep(p) =>
         cache'[WrittenKey(proc[p].kind, proc[p].id)].val
           = Stringify(Loader(proc[p].kind, proc[p].id, movieDB, genreDB))]_vars

\* C5 amended, the steps: the value a handler writes is what the loader
\* returned at the instant of the handler's own store call; it is the
\* loader's value at the instant of the write when no other request has been
\* in flight in between.
C5_Steps ==
  \A p \in Procs :
    /\ ReadStep(p) =>
         proc'[p].val = Loader(proc'[p].kind, proc'[p].id, movieDB', genreDB')
    /\ WriteStep(p) =>
         /\ cache'[WrittenKey(proc[p].kind, proc[p].id)].val = Stringify(proc[p].val)
         /\ proc[p].alone =>
              proc[p].val = Loader(proc[p].kind, proc[p].id, movieDB, genreDB)

\* C5 amended: every cache write stores the snapshot the handler took at its
\* own store call.
C5_SnapshotAtRead == [][C5_Steps]_vars

\* C5 witness: a GET /movies that did not run alone has written, and returns,
\* a list that is no longer the store's.
C5_Witness ==
  \E p \in Procs :
    /\ GetReturns(p) /\ proc[p].kind = "getMovies" /\ ~proc[p].hit /\ ~proc[p].alone
    /\ cache[KeyMoviesAll].val = proc[p].val
    /\ proc[p].val # Stringify(FindMovies(movieDB))

\* C6: a successful create, update or delete of a member of a collection
\* leaves the collection's key absent: `movies:all` for the movies,
\* `genres:all` and `genres:all-with-movies` for the genres.
C6_CollectionKeysInvalidated ==
  \A p \in Procs :
    Returning(p) /\ proc[p].code \in Success /\ proc[p].alone =>
      /\ proc[p].kind \in MovieWrites => RedisGet(cache, KeyMoviesAll) = Null
      /\ proc[p].kind \in GenreWrites =>
           /\ RedisGet(cache, KeyGenresAll) = Null
           /\ RedisGet(cache, KeyGenresMovies) = Null

\* the request that takes this step is p
Acts(p) == proc'[p].pc # proc[p].pc

\* the kind of the request at slot p that takes this step
ActingKind(p) == IF InFlight(p) THEN proc[p].kind ELSE proc'[p].kind

\* C7, the states: a mutating handler has touched the cache only after its
\* store mutation succeeded, and not at all when it returns not-found or the
\* store call failed.
C7_Counts ==
  \A p \in Procs :
    proc[p].kind \in Mutating =>
      /\ proc[p].cops > 0 => proc[p].stored
      /\ Returning(p) /\ proc[p].code = 404 => ~proc[p].stored /\ proc[p].cops = 0
      /\ Returning(p) /\ ~proc[p].stored => proc[p].cops = 0
      /\ Returning(p) /\ proc[p].code \notin Success => proc[p].cops = 0

\* C7, the steps: the step of a mutating handler that changes the cache comes
\* after its store mutation and changes nothing in the store; the step whose
\* store call fails or finds no record changes neither store nor cache.
C7_Steps ==
  \A p \in Procs :
    Acts(p) /\ ActingKind(p) \in Mutating =>
      /\ cache' # cache => proc[p].stored /\ store' = store
      /\ ~proc'[p].stored => cache' = cache /\ store' = store

\* C7: write-and-invalidate ordering.
C7_StoreBeforeCache == [](C7_Counts) /\ [][C7_Steps]_vars

\* C7 witness: DELETE /movies/:id returns not-found while `movies:all` is
\* cached.
C7_Witness ==
  \E p \in Procs :
    /\ Returning(p) /\ proc[p].kind = "deleteMovie" /\ proc[p].code = 404
    /\ RedisGet(cache, KeyMoviesAll) # Null

\* C8, the states: an entry that can be retrieved was written less than 3600
\* seconds ago, with a 3600-second expiry that nothing has extended.
C8_Entries ==
  \A k \in Keys :
    RedisGet(cache, k) # Null =>
      /\ cache[k].age < 3600
      /\ cache[k].age + cache[k].ttl = 3600

\* C8, the steps: every cache write sets a 3600-second expiry, and a hit
\* leaves every entry, value and expiry, as it is.
C8_Steps ==
  \A p \in Procs :
    /\ WriteStep(p) => cache'[WrittenKey(proc[p].kind, proc[p].id)].ttl = 3600
    /\ HitStep(p) => cache' = cache

\* C8: the expiry is absolute.
C8_AbsoluteExpiry == [](C8_Entries) /\ [][C8_Steps]_vars

\* C8 witness: a GET is served from an entry written TickStep seconds ago.
C8_Witness ==
  \E p \in Procs :
    /\ GetReturns(p) /\ proc[p].hit
    /\ cache[CacheKey(proc[p].kind, proc[p].id)].age = TickStep

\* C9: two consecutive GET /genres, with no request between them, return
\* identical JSON.
C9_IdempotentReRead ==
  \A p \in Procs :
    /\ GetReturns(p) /\ proc[p].kind = "getGenres" /\ proc[p].alone
    /\ proc[p].after.kind = "getGenres" /\ proc[p].after.code = 200
    => proc[p].val = proc[p].after.body

\* the created genre, as POST /genres returns and caches it
CreatedGenre(p) == [id |-> proc[p].id, name |-> proc[p].name, movies |-> <<>>]

\* C10: POST /genres returns 201 with the new record and has written it
\* under `genre:<id>` (where it stays until it expires); DELETE /genres/:genreId returns 200 with the record
\* removed from the store and `genre:<id>` absent; a read of a genre by id
\* that the store does not hold returns 404.
C10_GenreScenario ==
  \A p \in Procs :
    Returning(p) /\ proc[p].alone =>
      /\ proc[p].kind = "postGenre" /\ proc[p].code = 201 =>
           /\ proc[p].id = nextGenre
           /\ HasGenre(genreDB, proc[p].id)
           /\ proc[p].cops = 1
           /\ RedisGet(cache, KeyGenre(proc[p].id)) \in {Stringify(CreatedGenre(p)), Null}
      /\ proc[p].kind = "deleteGenre" /\ proc[p].code = 200 =>
           /\ ~HasGenre(genreDB, proc[p].id)
           /\ RedisGet(cache, KeyGenre(proc[p].id)) = Null
      /\ /\ proc[p].kind = "getGenreMovies" /\ proc[p].code # 500
         /\ ~HasGenre(genreDB, proc[p].id)
         => proc[p].code = 404

\* the step of request p in which an awaited call throws
Throws(p) == Acts(p) /\ fails' = fails + 1

\* C11: a call to the Entity Store or the Cache Store that fails makes the
\* handler return the 500 signal, in every operation, the creates POST
\* /movies and POST /genres included; never the 400 or the 404 signal.
C11_FailureIs500 ==
  [][\A p \in Procs : Throws(p) => proc'[p].pc = "respond" /\ proc'[p].code = 500]_vars

\* no request is in flight
Quiet == \A p \in Procs : ~InFlight(p)

\* the store call of movie write p commits in this step
Commits(p) == ActingKind(p) \in MovieWrites /\ proc'[p].stored /\ ~proc[p].stored

\* the movie record that the committing write p stores
Committed(p) == [id |-> proc'[p].id, name |-> proc'[p].name, genres |-> proc'[p].genres]

\* C12, the steps: the cache write of a GET /movies stores the list the
\* handler read, and the del of a movie write removes the key, whatever the
\* store holds and whichever store call came first (the last cache write
\* wins); the store's movies change only by the commits of the movie writes,
\* each applied to the store as it is.
C12_Steps ==
  \A p \in Procs :
    /\ PopulateStep(p) /\ proc[p].kind = "getMovies" =>
         cache'[KeyMoviesAll].val = Stringify(proc[p].val)
    /\ /\ proc[p].kind \in MovieWrites /\ proc[p].pc = "del"
       /\ proc'[p].code \in Success
       => cache'[KeyMoviesAll] = Absent
    /\ Commits(p) /\ ActingKind(p) = "postMovie" =>
         /\ ~HasMovie(movieDB, proc'[p].id)
         /\ movieDB' = movieDB \cup {Committed(p)}
    /\ Commits(p) /\ ActingKind(p) = "putMovie" =>
         /\ HasMovie(movieDB, proc'[p].id)
         /\ movieDB' = {d \in movieDB : d.id # proc'[p].id} \cup {Committed(p)}
    /\ Commits(p) /\ ActingKind(p) = "deleteMovie" =>
         /\ HasMovie(movieDB, proc'[p].id)
         /\ movieDB' = {d \in movieDB : d.id # proc'[p].id}
    /\ Acts(p) /\ ~Commits(p) => movieDB' = movieDB

\* C12: the lost cache update race between GET /movies and a movie write is
\* reachable (C12_Witness), and the store holds the committed mutations.
C12_LostCacheUpdate == [][C12_Steps]_vars

\* C12 witness: no call has failed, both requests have completed, and
\* `movies:all` is present with a list that is not the store's.
C12_Witness ==
  /\ Quiet /\ fails = 0
  /\ RedisGet(cache, KeyMoviesAll) # Null
  /\ RedisGet(cache, KeyMoviesAll) # Stringify(FindMovies(movieDB))
  /\ movieDB # {}

\* the handlers that write a cache key, each with the key's id
Owners ==
  {<<"getMovies", 0>>, <<"getGenres", 0>>, <<"getGenresMovies", 0>>}
    \cup {<<"getMovie", i>> : i \in MovieIds}
    \cup {<<"getGenreMovies", g>> : g \in GenreIds}
    \cup {<<"postGenre", g>> : g \in GenreIds}

\* what the entry of owner o would hold if it were written now
Current(o) == Stringify(Loader(o[1], o[2], movieDB, genreDB))

\* the entry of owner o can be retrieved
Held(o) == RedisGet(cache, WrittenKey(o[1], o[2])) # Null

\* C13, the entries.  Let T be the instant the system was idle with no
\* mutating request issued since, calm seconds ago.  An entry that differs
\* from the store was written before T and less than 3600 seconds ago; an
\* entry written after T equals the store; 3600 seconds after T no entry
\* that was present at T is left.
C13_Entries ==
  calm >= 0 =>
    \A o \in Owners :
      LET e == cache[WrittenKey(o[1], o[2])]
      IN Held(o) =>
           /\ e.val # Current(o) => e.age >= calm /\ calm < 3600
           /\ e.age < calm => e.val = Current(o)
           /\ calm >= 3600 => e.age < calm

\* the store has no record for a GET of this kind and id
Missing(kind, id) ==
  \/ kind = "getMovie" /\ ~HasMovie(movieDB, id)
  \/ kind = "getGenreMovies" /\ ~HasGenre(genreDB, id)

\* C13, the responses: a GET issued 3600 seconds or more after T that does
\* not fail returns the current state of the Entity Store.
C13_Responses ==
  \A p \in Procs :
    /\ Returning(p) /\ proc[p].kind \in Gets /\ proc[p].code # 500
    /\ calm >= 0 /\ proc[p].at >= 3600
    => IF Missing(proc[p].kind, proc[p].id)
       THEN proc[p].code = 404
       ELSE /\ proc[p].code = 200
            /\ proc[p].val
                 = Stringify(Loader(proc[p].kind, proc[p].id, movieDB, genreDB))

\* C13: bounded staleness.
C13_BoundedStaleness == C13_Entries /\ C13_Responses

\* C13 witness: a GET /movies returned the empty list after a movie had been
\* created; 3600 seconds after the system was idle, the next GET /movies
\* returns the store's list.
C13_Witness ==
  \E p \in Procs :
    /\ Returning(p) /\ proc[p].kind = "getMovies" /\ proc[p].code = 200
    /\ calm >= 0 /\ proc[p].at >= 3600
    /\ proc[p].after.kind = "getMovies" /\ proc[p].after.code = 200
    /\ proc[p].after.body = Stringify(<<>>)
    /\ proc[p].val # Stringify(<<>>)

\* the number of occurrences of movie id m in the list s
Occurs(s, m) == Cardinality({i \in DOMAIN s : s[i] = m})

\* the fan-out update of request p succeeds in this step
FanoutStep(p) == proc[p].pc = "fanout" /\ proc'[p].pc = "del"

\* C14, the steps: a fan-out update that succeeds appends the movie's id
\* once to the list of every existing genre the request names, whether the
\* list holds the id or not, and leaves the other lists as they are; no other
\* step changes the list of a genre (a genre goes only with its record).
C14_Steps ==
  /\ \A p \in Procs :
       FanoutStep(p) =>
         /\ {g.id : g \in genreDB'} = {g.id : g \in genreDB}
         /\ \A g \in genreDB :
              GenreOf(genreDB', g.id).movies
                = IF g.id \in proc[p].genres
                  THEN Append(g.movies, proc[p].id) ELSE g.movies
  /\ (\A p \in Procs : ~FanoutStep(p)) =>
       \A g \in genreDB' : HasGenre(genreDB, g.id) => g \in genreDB

\* p returns from a POST /movies during which no other request was in flight
PostMovieReturns(p) == Returning(p) /\ proc[p].kind = "postMovie" /\ proc[p].alone

\* C14, the counts that hold: a POST /movies that returns 201 has left its
\* movie's id once in the list of each existing genre it names and in no
\* other list.
C14_Counts ==
  \A p \in Procs :
    PostMovieReturns(p) /\ proc[p].code = 201 =>
      \A g \in genreDB :
        Occurs(g.movies, proc[p].id) = IF g.id \in proc[p].genres THEN 1 ELSE 0

\* C14 as claimed: the occurrences of a movie in a genre's list are as many
\* as the successful creates and updates that named the genre, so a POST
\* /movies that returns a failure has left none.
C14_CountsSuccesses ==
  /\ [][C14_Steps]_vars
  /\ [](C14_Counts)
  /\ [](\A p \in Procs :
          PostMovieReturns(p) /\ proc[p].code # 201 =>
            \A g \in genreDB : Occurs(g.movies, proc[p].id) = 0)

\* C14 amended: the occurrences are as many as the fan-out updates that
\* succeeded; a POST /movies that returns a failure has left one occurrence
\* when its fan-out had succeeded (the cache del failed) and none otherwise.
C14_CountsFanouts ==
  /\ [][C14_Steps]_vars
  /\ [](C14_Counts)
  /\ [](\A p \in Procs :
          PostMovieReturns(p) /\ proc[p].code # 201 =>
            \A g \in genreDB :
              /\ Occurs(g.movies, proc[p].id) <= 1
              /\ ~proc[p].stored \/ g.id \notin proc[p].genres
                   => Occurs(g.movies, proc[p].id) = 0)

\* C14 witness: a PUT /movies/:id returns 200 and the genre's list holds the
\* movie's id twice.
C14_Witness ==
  \E p \in Procs :
    /\ Returning(p) /\ proc[p].kind = "putMovie" /\ proc[p].code = 200
    /\ \E g \in genreDB : Occurs(g.movies, proc[p].id) = 2

\* C15: no step of POST /movies, PUT /movies/:id or DELETE /movies/:id changes
\* a cache key other than `movies:all`: every other entry keeps its value and
\* its expiry, also when the step changes a genre's movie list.
C15_MovieWritesFrame ==
  [][\A p \in Procs :
       Acts(p) /\ ActingKind(p) \in MovieWrites =>
         \A k \in Keys \ {KeyMoviesAll} : cache'[k] = cache[k]]_vars

\* C15 witness: POST /movies returns 201 having pushed its movie to a genre's
\* list, and `genres:all-with-movies` still holds the lists from before.
C15_Witness ==
  \E p \in Procs :
    /\ Returning(p) /\ proc[p].kind = "postMovie" /\ proc[p].code = 201
    /\ \E g \in genreDB : Occurs(g.movies, proc[p].id) = 1
    /\ RedisGet(cache, KeyGenresMovies) # Null
    /\ RedisGet(cache, KeyGenresMovies)
         # Stringify(FindGenresWithMovies(genreDB, movieDB))

\* the fan-out update of request p throws in this step
FanoutFails(p) == proc[p].pc = "fanout" /\ Throws(p)

\* the movie record that request p has committed
OwnMovie(p) == [id |-> proc[p].id, name |-> proc[p].name, genres |-> proc[p].genres]

\* C16, the steps: when the fan-out update of POST /movies or PUT /movies/:id
\* fails, the movie record that the request committed stays in the store,
\* no genre's list and no cache key changes, and the handler goes to its
\* failure response without a del.
C16_Steps ==
  \A p \in Procs :
    FanoutFails(p) =>
      /\ proc[p].stored
      /\ store' = store
      /\ cache' = cache
      /\ proc'[p].pc = "respond" /\ proc'[p].code \notin Success
      /\ proc'[p].cops = 0

\* C16, the states: a POST /movies or PUT /movies/:id that committed its
\* record and returns a failure has made no cache call that took effect, and
\* its record is in the store (no rollback) unless another request has
\* removed it.
C16_Counts ==
  \A p \in Procs :
    /\ Returning(p) /\ proc[p].kind \in {"postMovie", "putMovie"}
    /\ proc[p].stored /\ proc[p].code \notin Success
    => /\ proc[p].cops = 0
       /\ proc[p].alone => OwnMovie(p) \in movieDB

\* C16: the fan-out is not transactional.
C16_NoRollback == [](C16_Counts) /\ [][C16_Steps]_vars

\* C16 witness: POST /movies returns 400 with its movie in the store, the
\* genre it names without the movie in its list, and `movies:all` still held.
C16_Witness ==
  \E p \in Procs :
    /\ PostMovieReturns(p) /\ proc[p].code = 400 /\ proc[p].stored
    /\ OwnMovie(p) \in movieDB
    /\ \E g \in genreDB : g.id \in proc[p].genres /\ Occurs(g.movies, proc[p].id) = 0
    /\ RedisGet(cache, KeyMoviesAll) # Null

\* the get of the GET that arrives at slot p throws in this step
LookupFails(p) == ~InFlight(p) /\ proc'[p].kind \in Gets /\ fails' = fails + 1

\* C17, the steps: a GET whose cache lookup fails goes straight to its 500
\* response, with no query made and no cache write, and changes neither the
\* store nor the cache.
C17_Steps ==
  \A p \in Procs :
    LookupFails(p) =>
      /\ proc'[p].pc = "respond" /\ proc'[p].code = 500
      /\ proc'[p].queries = 0 /\ proc'[p].cops = 0 /\ ~proc'[p].hit
      /\ store' = store
      /\ cache' = cache

\* C17, the states: a GET makes a query only after a lookup that succeeded
\* and missed, and a GET that answers 500 has written nothing.
C17_Counts ==
  \A p \in Procs :
    proc[p].kind \in Gets =>
      /\ proc[p].pc \in {"find", "setex"} => proc[p].code = 0 /\ ~proc[p].hit
      /\ proc[p].code = 500 => Returning(p) /\ proc[p].cops = 0

\* C17: a failure of the cache lookup propagates; it is never taken for a miss.
C17_LookupFailurePropagates == [](C17_Counts) /\ [][C17_Steps]_vars

\* C17 witness: GET /movies answers 500 without a query while the store holds
\* a movie and `movies:all` is absent.
C17_Witness ==
  \E p \in Procs :
    /\ Returning(p) /\ proc[p].kind = "getMovies" /\ proc[p].code = 500
    /\ proc[p].queries = 0 /\ proc[p].alone
    /\ movieDB # {}
    /\ RedisGet(cache, KeyMoviesAll) = Null

Creates == {"postMovie", "postGenre"}

\* a create whose payload lacks a required field arrives at slot p
InvalidArrives(p) ==
  ~InFlight(p) /\ proc'[p].kind \in Creates /\ proc'[p].name = NoName

\* C18, the steps: a create whose payload lacks a required field goes
\* straight to its 400 response and changes neither the Entity Store (no
\* record, no genre's list) nor the Cache Store.
C18_Steps ==
  \A p \in Procs :
    InvalidArrives(p) =>
      /\ proc'[p].pc = "respond" /\ proc'[p].code = 400
      /\ ~proc'[p].stored /\ proc'[p].cops = 0
      /\ store' = store
      /\ cache' = cache

\* C18, the states: such a request is never past its arrival: it makes no
\* fan-out, no del and no setex.
C18_Counts ==
  \A p \in Procs :
    proc[p].kind \in Creates /\ proc[p].name = NoName =>
      /\ Returning(p) /\ proc[p].code = 400
      /\ ~proc[p].stored /\ proc[p].cops = 0 /\ proc[p].id = 0

OneAtATime == limits.procs = 1 /\ limits.fails = 0

\* `genre:<g>` is held only while the store holds genre g
HeldOnlyWhileStored ==
  \A g \in GenreIds : RedisGet(cache, KeyGenre(g)) # Null => HasGenre(genreDB, g)

\* C19 as claimed: in every state with no request in flight (and no call
\* having failed), `genre:<id>` is held only while genre <id> is in the
\* store, also when a DELETE /genres/<id> runs between the create and the
\* setex of the POST /genres.
C19_NeverOutlivesGenre == Quiet /\ fails = 0 => HeldOnlyWhileStored

\* C19 amended: the same, in the runs whose requests do not overlap and
\* whose calls do not fail.
C19_NeverOutlivesGenreOneAtATime == Quiet /\ OneAtATime => HeldOnlyWhileStored

\* C19 witness: in such a run, DELETE /genres/:genreId has returned 200 for
\* the genre that POST /genres created and cached, and the key is absent.
C19_Witness ==
  /\ Quiet /\ OneAtATime
  /\ last.kind = "deleteGenre" /\ last.code = 200
  /\ nextGenre = 1 /\ ~HasGenre(genreDB, 1)
  /\ cache[KeyGenre(1)] = Absent

\* a GET arrives at slot p and its lookup does not fail
LookupStep(p) == ~InFlight(p) /\ proc'[p].kind \in Gets /\ fails' = fails

\* the query of the GET at slot p returns in this step
QueryStep(p) ==
  proc[p].kind \in Gets /\ proc[p].pc = "find" /\ Acts(p) /\ fails' = fails

\* C20, the steps: no step of a GET changes the Entity Store or a cache key
\* other than the GET's own; whether the GET hits is decided by its own key
\* alone, a hit returns that key's payload, and a miss goes on with what
\* the store returns (or not-found): nothing a GET does or returns comes
\* from another key, `genre:<id>` included.
C20_Steps ==
  \A p \in Procs :
    /\ Acts(p) /\ ActingKind(p) \in Gets =>
         /\ store' = store
         /\ \A k \in Keys \ {CacheKey(ActingKind(p), proc'[p].id)} : cache'[k] = cache[k]
    /\ LookupStep(p) =>
         LET own == RedisGet(cache, CacheKey(proc'[p].kind, proc'[p].id))
         IN /\ proc'[p].hit <=> own # Null
            /\ proc'[p].hit => proc'[p].code = 200 /\ proc'[p].val = own
            /\ ~proc'[p].hit => proc'[p].pc = "find"
    /\ QueryStep(p) =>
         IF Missing(proc[p].kind, proc[p].id)
         THEN proc'[p].code = 404
         ELSE /\ proc'[p].pc = "setex"
              /\ proc'[p].val = Loader(proc[p].kind, proc[p].id, movieDB, genreDB)

\* C20, the responses of the other operations: what a create, an update or
\* a delete returns with success is made of the request's own data.
C20_Responses ==
  \A p \in Procs :
    Returning(p) /\ proc[p].code \in Success =>
      /\ proc[p].kind = "postMovie" =>
           proc[p].val = Stringify([message |-> "Movie Created", movie |-> MovieJSON(proc[p])])
      /\ proc[p].kind = "putMovie" => proc[p].val = Stringify(MovieJSON(proc[p]))
      /\ proc[p].kind = "deleteMovie" =>
           proc[p].val = Stringify([message |-> "Movie deleted"])
      /\ proc[p].kind = "postGenre" =>
           proc[p].val = Stringify([message |-> "Genre Created", genre |-> CreatedGenre(p)])
      /\ proc[p].kind = "deleteGenre" =>
           proc[p].val = Stringify([message |-> "Genre deleted"])

\* C20: reads are confined to their own key.
C20_ReadsOwnKeyOnly == [](C20_Responses) /\ [][C20_Steps]_vars

\* C20 witness: GET /genres/:genreId/movies misses, queries the store and
\* returns 200 while `genre:<id>` of the same genre is held.
C20_Witness ==
  \E p \in Procs :
    /\ Returning(p) /\ proc[p].kind = "getGenreMovies" /\ proc[p].code = 200
    /\ ~proc[p].hit /\ proc[p].queries = 1
    /\ RedisGet(cache, KeyGenre(proc[p].id)) # Null

====
